---- MODULE Spec2Model ----
(***************************************************************************)
(* gitown: CodeOwnersUpdater (src/gitown/gitown.py).                       *)
(*                                                                         *)
(* A run computes, for every file of the file list, the owners whose share *)
(* of the `git blame -e` text exceeds the ownership threshold, merges them *)
(* into the CODEOWNERS manifest, strips the entries made redundant by the  *)
(* "*" entry and rewrites the manifest when it changed.                    *)
(*                                                                         *)
(* Representation.                                                         *)
(*   - A Python dict is a sequence of records [key, value] with distinct   *)
(*     keys, in insertion order.                                           *)
(*   - A Python str that is searched (blame text, identity key) is a       *)
(*     sequence of one-character strings.                                  *)
(*   - A percentage is the exact rational [n, d] (n/d); Python computes    *)
(*     the same quotient in binary floating point, whose rounding is not   *)
(*     modelled.  d = 0 would be a ZeroDivisionError.                      *)
(***************************************************************************)
EXTENDS Integers, Sequences, FiniteSets, TLC

\* ------------------------------------------------------------------ bounds
MaxText == 4
MaxAlias == 2
MaxEntries == 2
MaxOwners == 2
MaxFiles == 2

\* --------------------------------------------------------------- constants
DEFAULT_OWNERSHIP_THRESHOLD == 25

NL == "\n"
SPLAT == "*"

VARIABLES
    files,                        \* self.files
    owners,                       \* self.owners: dict identity key -> owner
    ownership_threshold,          \* self.ownership_threshold
    debug,                        \* args.debug
    original_codeowner_data,      \* self.original_codeowner_data
    updated_codeowner_data,       \* self.updated_codeowner_data
    optimized_codeowner_data,     \* self.optimized_codeowner_data
    updated,                      \* self.updated
    codeowners_data,              \* check_files: codeowners_data
    splat,                        \* check_files: splat
    blame_source,                 \* texts `git blame` may print for a path
    blame_cache,                  \* lru_cache of get_blame_file_content
    blame_calls,                  \* path -> number of `git blame` processes run
    first_blame,                  \* path -> text its first lookup returned
    blame_file_content,           \* text the latest lookup returned
    i,                            \* position of `for file in files`
    j,                            \* position of `for key, value in owners`
    committer_line_frequency_map, \* get_committers_for_file: the map
    file_committers,              \* check_files: file_committers
    codeowners_file,              \* rows of the manifest file on disk
    file_writes,                  \* times the manifest file was opened "w"
    main_result,                  \* value returned by CodeOwnersUpdater.main
    exit_status,                  \* status the process exits with
    pc

vars == <<files, owners, ownership_threshold, debug, original_codeowner_data,
          updated_codeowner_data, optimized_codeowner_data, updated,
          codeowners_data, splat, blame_source, blame_cache, blame_calls,
          first_blame, blame_file_content, i, j,
          committer_line_frequency_map, file_committers, codeowners_file,
          file_writes, main_result, exit_status, pc>>

\* ------------------------------------------------------------ dict and set
Range(s) == {s[x] : x \in 1..Len(s)}

Keys(d) == {d[x].key : x \in 1..Len(d)}

Get(d, k, default) ==
    IF k \in Keys(d)
    THEN d[CHOOSE x \in 1..Len(d) : d[x].key = k].value
    ELSE default

Put(d, k, v) ==
    IF k \in Keys(d)
    THEN [x \in 1..Len(d) |-> IF d[x].key = k THEN [key |-> k, value |-> v] ELSE d[x]]
    ELSE Append(d, [key |-> k, value |-> v])

DictEq(a, b) ==
    /\ Keys(a) = Keys(b)
    /\ \A k \in Keys(a) : Get(a, k, <<>>) = Get(b, k, <<>>)

\* ------------------------------------------------- ownership calculator
\* str.count(sub): non-overlapping occurrences, scanned left to right.
RECURSIVE Count(_, _)
Count(text, sub) ==
    IF Len(text) < Len(sub) THEN 0
    ELSE IF SubSeq(text, 1, Len(sub)) = sub
         THEN 1 + Count(SubSeq(text, Len(sub) + 1, Len(text)), sub)
         ELSE Count(Tail(text), sub)

Zero == [n |-> 0, d |-> 1]

Add(p, q) == [n |-> p.n * q.d + q.n * p.d, d |-> p.d * q.d]

Less(p, q) == p.n * q.d < q.n * p.d

\* (total_lines_by_committer / total_lines) * 100 without the guard on
\* total_lines: the quotient by zero.
FrequencyUnguarded(text, committer_email) ==
    [n |-> Count(text, committer_email) * 100, d |-> Count(text, <<NL>>)]

\* get_committer_line_frequency_percentage, given the blame text.
FrequencyPercentage(text, committer_email) ==
    LET total_lines == Count(text, <<NL>>)
        total_lines_by_committer == Count(text, committer_email)
    IN  IF total_lines # 0
        THEN [n |-> total_lines_by_committer * 100, d |-> total_lines]
        ELSE Zero

\* The accumulation that keeps only the last alias's percentage.
AccumulateReplace(map, owner, frequency) == Put(map, owner, frequency)

\* committer_line_frequency_map[value] = map.get(value, 0) + frequency
Accumulate(map, owner, frequency) ==
    Put(map, owner, Add(Get(map, owner, Zero), frequency))

\* a[1] >= threshold: the inclusive boundary.
QualifiesInclusive(frequency, threshold) ==
    frequency.n >= threshold * frequency.d

\* a[1] > self.ownership_threshold
Qualifies(frequency, threshold) ==
    frequency.n > threshold * frequency.d

\* Insertion that puts an item before the items it ties with.
InsertBeforeTies(sorted, item) ==
    LET before == {x \in 1..Len(sorted) : Less(sorted[x].value, item.value)}
        at == Cardinality(before)
    IN  SubSeq(sorted, 1, at) \o <<item>> \o SubSeq(sorted, at + 1, Len(sorted))

\* One step of the stable sort: the item goes after every item whose
\* percentage is not greater than its own.
InsertSorted(sorted, item) ==
    LET before == {x \in 1..Len(sorted) : ~Less(item.value, sorted[x].value)}
        at == Cardinality(before)
    IN  SubSeq(sorted, 1, at) \o <<item>> \o SubSeq(sorted, at + 1, Len(sorted))

\* sorted(map.items(), key=lambda item: item[1])
RECURSIVE SortedItems(_)
SortedItems(items) ==
    IF items = <<>> THEN <<>>
    ELSE InsertSorted(SortedItems(SubSeq(items, 1, Len(items) - 1)),
                      items[Len(items)])

\* [a[0] for a in sorted(...) if a[1] > self.ownership_threshold]
RankedCommitters(map, threshold) ==
    LET kept == SelectSeq(SortedItems(map), LAMBDA a : Qualifies(a.value, threshold))
    IN  [x \in 1..Len(kept) |-> kept[x].key]

\* --------------------------------------------------- manifest reconciler
\* Suppression by equality of the two lists instead of a shared owner.
DiffersFromSplat(value, splat_) == value # splat_

\* not set(value) & set(splat)
NotInSplat(value, splat_) == Range(value) \cap Range(splat_) = {}

\* The keep condition without its `key == "*"` alternative.
KeepUnlessInSplat(key, value, splat_) == NotInSplat(value, splat_)

\* key == "*" or (not set(value) & set(splat))
Keep(key, value, splat_) == key = SPLAT \/ NotInSplat(value, splat_)

\* for key, value in self.original_codeowner_data.items():
\*     self.updated_codeowner_data[key] = codeowners_data.get(key, value)
RECURSIVE CarryForwardLoop(_, _, _)
CarryForwardLoop(original, fresh, into) ==
    IF original = <<>> THEN into
    ELSE CarryForwardLoop(Tail(original), fresh,
             Put(into, Head(original).key,
                 Get(fresh, Head(original).key, Head(original).value)))

\* for key, value in codeowners_data.items():
\*     if not set(value) & set(splat): self.updated_codeowner_data[key] = value
RECURSIVE InsertLoop(_, _, _)
InsertLoop(fresh, into, splat_) ==
    IF fresh = <<>> THEN into
    ELSE InsertLoop(Tail(fresh),
             IF NotInSplat(Head(fresh).value, splat_)
             THEN Put(into, Head(fresh).key, Head(fresh).value)
             ELSE into,
             splat_)

\* {key: value for key, value in updated.items() if key == "*" or ...}
OptimizedOf(updated_data, splat_) ==
    SelectSeq(updated_data, LAMBDA e : Keep(e.key, e.value, splat_))

\* The manifest check_files hands to update_file for a run that starts with
\* the given original manifest and computes the given fresh ownership.
Reconcile(original, fresh) ==
    LET carried == CarryForwardLoop(original, fresh, <<>>)
        splat_ == Get(carried, SPLAT, <<>>)
    IN  OptimizedOf(InsertLoop(fresh, carried, splat_), splat_)

\* An update_file that writes whatever it is given.
AlwaysChanged(updated_data, original) == TRUE

\* updated_data != self.original_codeowner_data
Changed(updated_data, original) == ~DictEq(updated_data, original)

\* -------------------------------------------------------------- the run
\* @cache on get_blame_file_content: is the path's text already cached?
NeverCached(filename) == FALSE

Cached(filename) == filename \in DOMAIN blame_cache

Remember(cache, filename, text) ==
    [p \in DOMAIN cache \cup {filename} |-> IF p = filename THEN text ELSE cache[p]]

\* csv.writer rows: writer.writerow([key] + value)
Rows(data) == [x \in 1..Len(data) |-> <<data[x].key>> \o data[x].value]

\* check_files: `for file in files:` reaches the next file and enters
\* get_committers_for_file.
StartFile ==
    /\ pc = "files"
    /\ i <= Len(files)
    /\ committer_line_frequency_map' = <<>>
    /\ j' = 1
    /\ pc' = "alias"
    /\ UNCHANGED <<files, owners, ownership_threshold, debug,
                   original_codeowner_data, updated_codeowner_data,
                   optimized_codeowner_data, updated, codeowners_data, splat,
                   blame_source, blame_cache, blame_calls, first_blame,
                   blame_file_content, i, file_committers, codeowners_file,
                   file_writes, main_result, exit_status>>

\* One iteration of `for key, value in self.owners.items()`: the lookup of
\* the blame text (through the cache) and the accumulation.
Frequency ==
    /\ pc = "alias"
    /\ j <= Len(owners)
    /\ LET filename == files[i]
           hit == Cached(filename)
       IN  \E text \in (IF hit THEN {blame_cache[filename]} ELSE blame_source) :
             /\ blame_cache' = IF hit THEN blame_cache
                               ELSE Remember(blame_cache, filename, text)
             /\ blame_calls' = IF hit THEN blame_calls
                               ELSE [blame_calls EXCEPT ![filename] = @ + 1]
             /\ first_blame' = IF filename \in DOMAIN first_blame THEN first_blame
                               ELSE Remember(first_blame, filename, text)
             /\ blame_file_content' = text
             /\ committer_line_frequency_map' =
                    Accumulate(committer_line_frequency_map, owners[j].value,
                               FrequencyPercentage(text, owners[j].key))
    /\ j' = j + 1
    /\ UNCHANGED <<files, owners, ownership_threshold, debug,
                   original_codeowner_data, updated_codeowner_data,
                   optimized_codeowner_data, updated, codeowners_data, splat,
                   blame_source, i, file_committers, codeowners_file,
                   file_writes, main_result, exit_status, pc>>

\* get_committers_for_file returns the ranked, filtered owner list.
RankCommitters ==
    /\ pc = "alias"
    /\ j > Len(owners)
    /\ file_committers' =
           RankedCommitters(committer_line_frequency_map, ownership_threshold)
    /\ pc' = "collect"
    /\ UNCHANGED <<files, owners, ownership_threshold, debug,
                   original_codeowner_data, updated_codeowner_data,
                   optimized_codeowner_data, updated, codeowners_data, splat,
                   blame_source, blame_cache, blame_calls, first_blame,
                   blame_file_content, i, j, committer_line_frequency_map,
                   codeowners_file, file_writes, main_result, exit_status>>

\* if file_committers: codeowners_data[file] = file_committers
\* The locals of the finished call are dropped.
Collect ==
    /\ pc = "collect"
    /\ codeowners_data' = IF file_committers # <<>>
                          THEN Put(codeowners_data, files[i], file_committers)
                          ELSE codeowners_data
    /\ i' = i + 1
    /\ j' = 0
    /\ committer_line_frequency_map' = <<>>
    /\ file_committers' = <<>>
    /\ pc' = "files"
    /\ UNCHANGED <<files, owners, ownership_threshold, debug,
                   original_codeowner_data, updated_codeowner_data,
                   optimized_codeowner_data, updated, splat, blame_source,
                   blame_cache, blame_calls, first_blame, blame_file_content,
                   codeowners_file, file_writes, main_result, exit_status>>

\* The carry-forward loop and the snapshot of the "*" entry.
CarryForward ==
    /\ pc = "files"
    /\ i > Len(files)
    /\ updated_codeowner_data' =
           CarryForwardLoop(original_codeowner_data, codeowners_data,
                            updated_codeowner_data)
    /\ splat' = Get(updated_codeowner_data', SPLAT, <<>>)
    /\ pc' = "insert"
    /\ UNCHANGED <<files, owners, ownership_threshold, debug,
                   original_codeowner_data, optimized_codeowner_data, updated,
                   codeowners_data, blame_source, blame_cache, blame_calls,
                   first_blame, blame_file_content, i, j,
                   committer_line_frequency_map, file_committers,
                   codeowners_file, file_writes, main_result, exit_status>>

\* The insertion loop over the fresh ownership.
Insert ==
    /\ pc = "insert"
    /\ updated_codeowner_data' =
           InsertLoop(codeowners_data, updated_codeowner_data, splat)
    /\ pc' = "optimize"
    /\ UNCHANGED <<files, owners, ownership_threshold, debug,
                   original_codeowner_data, optimized_codeowner_data, updated,
                   codeowners_data, splat, blame_source, blame_cache,
                   blame_calls, first_blame, blame_file_content, i, j,
                   committer_line_frequency_map, file_committers,
                   codeowners_file, file_writes, main_result, exit_status>>

\* The optimized manifest.
Optimize ==
    /\ pc = "optimize"
    /\ optimized_codeowner_data' = OptimizedOf(updated_codeowner_data, splat)
    /\ pc' = "write"
    /\ UNCHANGED <<files, owners, ownership_threshold, debug,
                   original_codeowner_data, updated_codeowner_data, updated,
                   codeowners_data, splat, blame_source, blame_cache,
                   blame_calls, first_blame, blame_file_content, i, j,
                   committer_line_frequency_map, file_committers,
                   codeowners_file, file_writes, main_result, exit_status>>

\* update_file(self.optimized_codeowner_data)
UpdateFile ==
    /\ pc = "write"
    /\ IF Changed(optimized_codeowner_data, original_codeowner_data)
       THEN /\ codeowners_file' = Rows(optimized_codeowner_data)
            /\ file_writes' = file_writes + 1
            /\ updated' = TRUE
       ELSE UNCHANGED <<codeowners_file, file_writes, updated>>
    /\ pc' = "exit"
    /\ UNCHANGED <<files, owners, ownership_threshold, debug,
                   original_codeowner_data, updated_codeowner_data,
                   optimized_codeowner_data, codeowners_data, splat,
                   blame_source, blame_cache, blame_calls, first_blame,
                   blame_file_content, i, j, committer_line_frequency_map,
                   file_committers, main_result, exit_status>>

\* CodeOwnersUpdater.main returns 1 or 0; the module's main() drops that
\* value, raises when --debug is set and otherwise returns None, which
\* sys.exit turns into status 0.  An uncaught exception exits with 1.
Exit ==
    /\ pc = "exit"
    /\ main_result' = IF updated THEN 1 ELSE 0
    /\ exit_status' = IF debug THEN 1 ELSE 0
    /\ pc' = "done"
    /\ UNCHANGED <<files, owners, ownership_threshold, debug,
                   original_codeowner_data, updated_codeowner_data,
                   optimized_codeowner_data, updated, codeowners_data, splat,
                   blame_source, blame_cache, blame_calls, first_blame,
                   blame_file_content, i, j, committer_line_frequency_map,
                   file_committers, codeowners_file, file_writes>>

\* --------------------------------------------------------------- inputs
SeqsUpTo(S, n) == UNION {[1..m -> S] : m \in 0..n}

NoDup(s) == \A x, y \in 1..Len(s) : x # y => s[x] # s[y]

DistinctKeys(d) == \A x, y \in 1..Len(d) : x # y => d[x].key # d[y].key

\* Manifest patterns and file paths ("*" is a legal file name).
Patterns == {SPLAT, "f"}

Owners == {"A", "B", "C"}

\* Owner lists of manifest rows and of fresh ownership (without repeats).
OwnerLists == {s \in SeqsUpTo(Owners, MaxOwners) : NoDup(s)}

Manifests(lists) ==
    {d \in SeqsUpTo([key : Patterns, value : lists], MaxEntries) : DistinctKeys(d)}

\* Blame texts: every string over two identity characters and the newline.
Texts == SeqsUpTo({"a", "b", NL}, MaxText)

IdentityKeys == {<<"a">>, <<"b">>, <<"a", "b">>}

\* .gitownrc: identity key -> canonical owner, in file order.
AliasTables ==
    {d \in SeqsUpTo([key : IdentityKeys, value : {"A", "B"}], MaxAlias) :
        DistinctKeys(d)}

\* --ownership_threshold
Thresholds == {-1, 0, DEFAULT_OWNERSHIP_THRESHOLD, 50, 100}

\* The state after CodeOwnersUpdater.__init__, for inputs drawn from the
\* given sets.
InitWith(file_lists, alias_tables, thresholds, originals, source, debugs) ==
    /\ files \in file_lists
    /\ owners \in alias_tables
    /\ ownership_threshold \in thresholds
    /\ debug \in debugs
    /\ original_codeowner_data \in originals
    /\ updated_codeowner_data = <<>>
    /\ optimized_codeowner_data = <<>>
    /\ updated = FALSE
    /\ codeowners_data = <<>>
    /\ splat = <<>>
    /\ blame_source = source
    /\ blame_cache = [p \in {} |-> <<>>]
    /\ blame_calls = [p \in Patterns |-> 0]
    /\ first_blame = [p \in {} |-> <<>>]
    /\ blame_file_content = <<>>
    /\ i = 1
    /\ j = 0
    /\ committer_line_frequency_map = <<>>
    /\ file_committers = <<>>
    /\ codeowners_file = Rows(original_codeowner_data)
    /\ file_writes = 0
    /\ main_result = -1
    /\ exit_status = -1
    /\ pc = "files"

\* Whole runs over short file lists, small manifests and three blame texts.
Init ==
    InitWith(SeqsUpTo(Patterns, MaxFiles),
             {<<[key |-> <<"a">>, value |-> "A"], [key |-> <<"b">>, value |-> "B"]>>,
              <<[key |-> <<"a">>, value |-> "A"], [key |-> <<"b">>, value |-> "A"]>>},
             {DEFAULT_OWNERSHIP_THRESHOLD, 50},
             Manifests({<<"A">>, <<"B">>}),
             {<<>>, <<"a", NL>>, <<"a", NL, "b", NL>>},
             BOOLEAN)

Next ==
    \/ StartFile
    \/ Frequency
    \/ RankCommitters
    \/ Collect
    \/ CarryForward
    \/ Insert
    \/ Optimize
    \/ UpdateFile
    \/ Exit

Spec == Init /\ [][Next]_vars

\* Runs over one file, for every blame text, alias table and threshold of
\* the bounds: the ownership calculator.
InitOwners ==
    InitWith({<<"f">>}, AliasTables, Thresholds, {<<>>}, Texts, {FALSE})

SpecOwners == InitOwners /\ [][Next]_vars

\* The blame text in which the owners of the list hold 1, 2, 3, ... lines,
\* under the alias table a -> A, b -> B, c -> C.
KeyOf(owner) == CHOOSE k \in {<<"a", "A">>, <<"b", "B">>, <<"c", "C">>} : k[2] = owner

RECURSIVE Lines(_, _)
Lines(c, n) == IF n = 0 THEN <<>> ELSE <<c, NL>> \o Lines(c, n - 1)

RECURSIVE TextFor(_)
TextFor(list) ==
    IF list = <<>> THEN <<>>
    ELSE TextFor(SubSeq(list, 1, Len(list) - 1))
             \o Lines(KeyOf(list[Len(list)])[1], Len(list))

OwnerAliases ==
    <<[key |-> <<"a">>, value |-> "A"], [key |-> <<"b">>, value |-> "B"],
      [key |-> <<"c">>, value |-> "C"]>>

\* The state in which check_files leaves its loop over the files, for every
\* original manifest and every fresh ownership map of the bounds.  The files
\* are the fresh map's keys, each blamed once, threshold 0.
InitReconcile ==
    /\ original_codeowner_data \in Manifests(OwnerLists)
    /\ codeowners_data \in Manifests(OwnerLists \ {<<>>})
    /\ files = [x \in 1..Len(codeowners_data) |-> codeowners_data[x].key]
    /\ owners = OwnerAliases
    /\ ownership_threshold = 0
    /\ debug = FALSE
    /\ updated_codeowner_data = <<>>
    /\ optimized_codeowner_data = <<>>
    /\ updated = FALSE
    /\ splat = <<>>
    /\ blame_source = {TextFor(l) : l \in OwnerLists}
    /\ blame_cache = [p \in Keys(codeowners_data) |->
                          TextFor(Get(codeowners_data, p, <<>>))]
    /\ blame_calls = [p \in Patterns |-> IF p \in Keys(codeowners_data) THEN 1 ELSE 0]
    /\ first_blame = blame_cache
    /\ blame_file_content =
           IF files = <<>> THEN <<>> ELSE blame_cache[files[Len(files)]]
    /\ i = Len(files) + 1
    /\ j = 0
    /\ committer_line_frequency_map = <<>>
    /\ file_committers = <<>>
    /\ codeowners_file = Rows(original_codeowner_data)
    /\ file_writes = 0
    /\ main_result = -1
    /\ exit_status = -1
    /\ pc = "files"

\* The frequency map get_committers_for_file builds from a blame text.
RECURSIVE FrequencyMap(_, _, _)
FrequencyMap(aliases, text, map) ==
    IF aliases = <<>> THEN map
    ELSE FrequencyMap(Tail(aliases), text,
             Accumulate(map, Head(aliases).value,
                        FrequencyPercentage(text, Head(aliases).key)))

\* InitReconcile is a state of the run: the cached blame text of every file
\* ranks to the file's fresh owner list.
FreshIsComputed ==
    \A p \in Keys(codeowners_data) :
        RankedCommitters(FrequencyMap(owners, blame_cache[p], <<>>),
                         ownership_threshold)
            = Get(codeowners_data, p, <<>>)

NextReconcile ==
    \/ CarryForward
    \/ Insert
    \/ Optimize
    \/ UpdateFile
    \/ Exit

SpecReconcile == InitReconcile /\ [][NextReconcile]_vars

\* ------------------------------------------------------------ properties
AfterInsert == pc \in {"optimize", "write", "exit", "done"}

AfterOptimize == pc \in {"write", "exit", "done"}

AfterUpdateFile == pc \in {"exit", "done"}

\* Every fresh entry equals the original manifest's entry for its pattern.
FreshMatchesOriginal ==
    \A k \in Keys(codeowners_data) :
        /\ k \in Keys(original_codeowner_data)
        /\ Get(codeowners_data, k, <<>>) = Get(original_codeowner_data, k, <<>>)

\* No entry of the original manifest other than "*" names an owner of "*".
NoRedundantOriginal ==
    \A k \in Keys(original_codeowner_data) \ {SPLAT} :
        Range(Get(original_codeowner_data, k, <<>>))
            \cap Range(Get(original_codeowner_data, SPLAT, <<>>)) = {}

Unchanged ==
    /\ ~updated
    /\ file_writes = 0
    /\ codeowners_file = Rows(original_codeowner_data)

C2_ReconcileIdempotent ==
    AfterOptimize =>
        DictEq(Reconcile(updated_codeowner_data, <<>>), optimized_codeowner_data)

\* C3: after check_files the optimized manifest's keys are keys of the
\* updated manifest, each with the owner sequence it has in updated, and a
\* "*" entry of updated is always kept with its owner list.
C3_OptimizedSubsetKeepsSplat ==
    AfterOptimize =>
        /\ Keys(optimized_codeowner_data) \subseteq Keys(updated_codeowner_data)
        /\ \A k \in Keys(optimized_codeowner_data) :
               Get(optimized_codeowner_data, k, <<>>)
                   = Get(updated_codeowner_data, k, <<>>)
        /\ SPLAT \in Keys(updated_codeowner_data) =>
               /\ SPLAT \in Keys(optimized_codeowner_data)
               /\ Get(optimized_codeowner_data, SPLAT, <<>>)
                      = Get(updated_codeowner_data, SPLAT, <<>>)

\* An optimized manifest that kept a "*" entry with owners and dropped
\* another entry of updated.
C3_Witness ==
    /\ AfterOptimize
    /\ Get(updated_codeowner_data, SPLAT, <<>>) # <<>>
    /\ SPLAT \in Keys(optimized_codeowner_data)
    /\ Keys(optimized_codeowner_data) # Keys(updated_codeowner_data)

\* The owner list under "*" once the original entries are carried forward.
SplatAfterCarry ==
    IF SPLAT \in Keys(original_codeowner_data)
    THEN Get(codeowners_data, SPLAT, Get(original_codeowner_data, SPLAT, <<>>))
    ELSE <<>>

\* C4: with splat the owner list under "*" after the carry-forward step, a
\* fresh entry whose pattern is no key of the original manifest is in updated
\* (with its owners) if and only if its owners and splat share no element.
C4_SuppressionByIntersection ==
    AfterInsert =>
        /\ splat = SplatAfterCarry
        /\ \A x \in 1..Len(codeowners_data) :
               LET e == codeowners_data[x]
               IN  e.key \notin Keys(original_codeowner_data) =>
                       /\ e.key \in Keys(updated_codeowner_data)
                              <=> Range(e.value) \cap Range(SplatAfterCarry) = {}
                       /\ e.key \in Keys(updated_codeowner_data)
                              => Get(updated_codeowner_data, e.key, <<>>) = e.value

\* Fresh owners [A, B] for a new pattern, dropped because of splat [B, C].
C4_Witness ==
    /\ AfterInsert
    /\ splat = <<"B", "C">>
    /\ \E x \in 1..Len(codeowners_data) :
           /\ codeowners_data[x].key \notin Keys(original_codeowner_data)
           /\ codeowners_data[x].value = <<"A", "B">>
           /\ codeowners_data[x].key \notin Keys(updated_codeowner_data)

\* A lookup of the current file's blame text has happened in the current
\* get_committers_for_file call.
LookedUp ==
    \/ pc = "alias" /\ j > 1
    \/ pc = "collect" /\ owners # <<>>

\* C5: `git blame` runs at most once for each file path, and every lookup of
\* a path returns the text its first lookup returned.
C5_BlameOncePerPath ==
    /\ \A p \in Patterns : blame_calls[p] <= 1
    /\ LookedUp => blame_file_content = first_blame[files[i]]

\* The second occurrence of a path in the file list, looked up for every
\* alias, with one `git blame` run for it.
C5_Witness ==
    /\ pc = "collect"
    /\ i = 2
    /\ files[1] = files[2]
    /\ Len(owners) = 2
    /\ blame_file_content # <<>>
    /\ blame_calls[files[i]] = 1

\* C6: without --debug the process signals "changed" (a non-zero exit status)
\* exactly when the manifest was rewritten (self.updated is True).
C6_ExitStatusReportsChange ==
    (pc = "done" /\ ~debug) => (exit_status # 0 <=> updated)

\* The blame text of the file get_committers_for_file has just ranked has no
\* line terminator.
NoLines == Count(blame_file_content, <<NL>>) = 0

NoOwnersNoFault ==
    /\ file_committers = <<>>
    /\ \A x \in 1..Len(committer_line_frequency_map) :
           committer_line_frequency_map[x].value.d # 0

\* C7 as stated: a blame text without line terminators yields no owners and
\* no division by zero, for every alias table and every threshold.
C7_NoLinesNoOwnersAnyThreshold ==
    (pc = "collect" /\ NoLines) => NoOwnersNoFault

\* C7 as amended: a blame text without line terminators yields no owners and
\* no division by zero, for every alias table and every threshold that is
\* not negative.
C7_NoLinesNoOwners ==
    (pc = "collect" /\ NoLines /\ ownership_threshold >= 0) => NoOwnersNoFault

\* A text without newline that holds the first alias's identity, two
\* aliases, a threshold of 0 or more, and no owners.
C7_Witness ==
    /\ pc = "collect"
    /\ NoLines
    /\ ownership_threshold >= 0
    /\ Len(owners) = 2
    /\ Count(blame_file_content, owners[1].key) > 0
    /\ file_committers = <<>>

FirstReached(owner) ==
    CHOOSE x \in 1..Len(owners) :
        /\ owners[x].value = owner
        /\ \A y \in 1..(x - 1) : owners[y].value # owner

\* C9: the result is ordered by accumulated percentage ascending, and owners
\* with equal percentages are in the order in which the alias table first
\* reaches them.
C9_AscendingStable ==
    pc = "collect" =>
        \A x, y \in 1..Len(file_committers) :
            x < y =>
                LET p == Get(committer_line_frequency_map, file_committers[x], Zero)
                    q == Get(committer_line_frequency_map, file_committers[y], Zero)
                IN  /\ p.n * q.d <= q.n * p.d
                    /\ p.n * q.d = q.n * p.d =>
                           FirstReached(file_committers[x])
                               < FirstReached(file_committers[y])

\* Two owners with the same percentage, both returned.
C9_Witness ==
    /\ pc = "collect"
    /\ Len(file_committers) = 2
    /\ LET p == Get(committer_line_frequency_map, file_committers[1], Zero)
           q == Get(committer_line_frequency_map, file_committers[2], Zero)
       IN  p.n * q.d = q.n * p.d

\* The occurrences in the text of every identity key aliased to the owner.
RECURSIVE Occurrences(_, _, _)
Occurrences(aliases, owner, text) ==
    IF aliases = <<>> THEN 0
    ELSE (IF Head(aliases).value = owner THEN Count(text, Head(aliases).key) ELSE 0)
             + Occurrences(Tail(aliases), owner, text)

\* C10: an owner's accumulated percentage is the sum over the identity keys
\* aliased to it of occurrences(key) / totalLines * 100, and every canonical
\* owner of the alias table has an accumulated percentage.
C10_AdditiveAcrossAliases ==
    pc = "collect" =>
        /\ Keys(committer_line_frequency_map) = {owners[x].value : x \in 1..Len(owners)}
        /\ \A x \in 1..Len(committer_line_frequency_map) :
               LET a == committer_line_frequency_map[x]
                   total == Count(blame_file_content, <<NL>>)
                   sum == Occurrences(owners, a.key, blame_file_content)
               IN  IF total = 0 THEN a.value.n = 0
                   ELSE a.value.n * total = sum * 100 * a.value.d

\* Two identity keys of one owner, each found in the text, adding up to more
\* than 100 percent.
C10_Witness ==
    /\ pc = "collect"
    /\ Len(owners) = 2
    /\ owners[1].value = owners[2].value
    /\ Count(blame_file_content, owners[1].key) > 0
    /\ Count(blame_file_content, owners[2].key) > 0
    /\ \E x \in 1..Len(committer_line_frequency_map) :
           LET a == committer_line_frequency_map[x]
           IN  a.value.n > 100 * a.value.d

====
